---- MODULE Spec2Model ----
(***************************************************************************)
(* Model of CustomReActAgent (custom_react_agent/ReActAgent.py): the chat  *)
(* loop, the Action-Input rewrite, _process_actions and the chat memory;   *)
(* and of generate_embeddings (embed.py): the worker pool, the progress    *)
(* counter and its lock.  Spec is the agent, SpecEmbed the embedding run.  *)
(*                                                                         *)
(* A completion text is a sequence of tokens.  A token is a record         *)
(*   [t |-> kind, fmt |-> formatting, obj |-> JSON object]                 *)
(* where kind is one of                                                    *)
(*   "Th"   "Thought: ..."              "An"   "Answer: ..."               *)
(*   "Ac"   "Action: query_tool"        "AcU"  "Action: other_tool"        *)
(*   "AI"   the literal "Action Input:" "ws"   white space                 *)
(*   "tx"   free text                   "arr"  a JSON value that is no     *)
(*   "js"   a JSON object                      object, e.g. [1]            *)
(* A JSON object is a sequence of <<key, value>> pairs in document order.  *)
(*                                                                         *)
(* The language-model backend, the tool, the output parser and             *)
(* _get_response are collaborators of chat; the backend is assumed to      *)
(* answer (a backend failure is an infrastructure fault outside the loop). *)
(***************************************************************************)
EXTENDS Integers, Sequences, FiniteSets, TLC

\* ---------------------------------------------------------------- bounds
MaxIter == 2
MaxTurns == 2
MaxNodes == 3
MaxThreads == 2

\* ------------------------------------------------------------ vocabulary
Tok(t) == [t |-> t, fmt |-> "", obj |-> <<>>]
Js(fmt, obj) == [t |-> "js", fmt |-> fmt, obj |-> obj]

Questions == {"q1", "q2"}

\* QUERY_ENGINE_PROMPT_FORMATTER.format(question=message)
QUERY_ENGINE_PROMPT_FORMATTER(message) ==
    IF message = "q1" THEN "fmt(q1)" ELSE "fmt(q2)"

\* f"{message}\n{QUERY_ENGINE_TOOL_ROUTER}"
message_with_tool_description(message) == <<message, "QUERY_ENGINE_TOOL_ROUTER">>

ObjX == << <<"input", "X">> >>
ObjXK == << <<"input", "X">>, <<"k", "1">> >>
ObjK == << <<"k", "1">> >>

\* The completions the backend may return.
Completions ==
    { <<Tok("Th"), Tok("Ac"), Tok("AI"), Tok("ws"), Js("canon", ObjX)>>,
      <<Tok("Th"), Tok("An")>>,
      <<Tok("Th"), Tok("Ac"), Tok("AI"), Tok("ws"), Tok("tx")>>,
      <<Tok("Th"), Tok("Ac"), Tok("AI"), Tok("arr")>>,
      <<Tok("Th"), Tok("Ac"), Tok("AI")>>,
      <<Tok("Th"), Tok("tx")>>,
      <<Tok("Th"), Tok("Ac"), Tok("ws"), Js("canon", ObjX)>>,
      <<Tok("Th"), Tok("AcU"), Tok("AI"), Tok("ws"), Js("canon", ObjX)>>,
      <<Tok("Th"), Tok("Ac"), Tok("AI"), Tok("ws"), Js("canon", ObjX), Tok("ws"), Tok("tx")>>,
      <<Tok("Th"), Js("canon", ObjX), Tok("Ac"), Tok("AI"), Tok("ws"), Js("canon", ObjX)>>,
      <<Tok("Th"), Tok("Ac"), Tok("AI"), Js("compact", ObjXK)>>,
      <<Tok("Th"), Tok("Ac"), Tok("AI"), Js("canon", ObjK), Tok("ws")>>,
      <<Tok("Th"), Tok("Ac"), Tok("AI"), Js("canon", ObjX), Tok("AI"), Js("canon", ObjX)>> }

\* Chat histories a caller may pass as chat_history.
Histories ==
    { <<>>,
      << [role |-> "user", content |-> <<"q0">>],
         [role |-> "assistant", content |-> <<"a0">>] >> }

\* chat_history: Optional[List[ChatMessage]] = None
NoHistory == [given |-> FALSE, log |-> <<>>]
HistoryArgs == {NoHistory} \cup {[given |-> TRUE, log |-> h] : h \in Histories}

\* self._tools_dict: the registry built at construction.
tools_dict == {"query_tool"}

VARIABLES
    pc,                 \* position of the chat invocation
    max_iterations,     \* self._max_iterations
    memory,             \* self._memory
    message,            \* argument of chat
    current_reasoning,  \* chat's local list, line 32
    it,                 \* iterations of the for loop begun so far
    chat_response,      \* object returned by self._llm.chat
    chat_response_copy, \* copy.deepcopy(chat_response)
    rewrite_applied,    \* whether lines 65-69 were executed in this iteration
    reasoning_steps,    \* _process_actions' local list
    is_done,            \* _process_actions' is_done
    tool_output,        \* line 104
    response,           \* text returned by chat
    exc,                \* exception that left chat, "none" if none
    turns,              \* chat invocations begun
    llm_calls,          \* self._llm.chat calls of this invocation
    tool_calls,         \* tool.call calls of this invocation
    puts,               \* self._memory.put calls of this invocation
    chat_history,       \* argument of chat: [given, log], given = FALSE for None
    memory_before,      \* the memory when chat was entered
    emitted,            \* the shape of each completion of this invocation
    input_chat,         \* what the formatter was given for the last prompt
    events,             \* FUNCTION_CALL events of this invocation, in order
    event_open,         \* inside the with block of lines 97-105
    \* generate_embeddings (embed.py)
    main_pc,            \* position of the thread that called generate_embeddings
    num_threads,        \* multiprocessing.cpu_count()
    uses_token_counter, \* embedding_model.model_name in MODEL_TO_ENCODING
    task,               \* per node: where its generate_node_embedding call is
    error,              \* per node: what was raised while it was processed
    logged,             \* per node: logging.error calls made for it
    embedding,          \* per node: node.embedding has been set
    attempts,           \* per node: times generate_node_embedding was entered
    progress_counter,   \* progress_counter.value
    lock,               \* holder of progress_counter.get_lock(), 0 when free
    local_value,        \* per node: the value read by progress_counter.value += 1
    collected           \* results the caller has taken from executor.map

cvars == <<pc, max_iterations, memory, message, current_reasoning, it,
           chat_response, chat_response_copy, rewrite_applied, reasoning_steps,
           is_done, tool_output, response, exc, turns, llm_calls, tool_calls, puts,
           chat_history, memory_before, emitted, input_chat, events, event_open>>

evars == <<main_pc, num_threads, uses_token_counter, task, error, logged,
           embedding, attempts, progress_counter, lock, local_value, collected>>

vars == <<cvars, evars>>

\* ------------------------------------------------------------- text model
\* A marker test that also accepts 'Action:'.
MarkerLoose(tok) == tok.t \in {"AI", "Ac"}

\* 'Action Input:' as a token
Marker(tok) == tok.t = "AI"

\* 'Action Input:' in response_content (line 52)
HasMarker(text) == \E i \in DOMAIN text : Marker(text[i])

MarkerPositions(text) == {i \in DOMAIN text : Marker(text[i])}

Min(S) == CHOOSE x \in S : \A y \in S : x <= y

\* response_content.split('Action Input:')[1]: the text between the first
\* marker and the next one (or the end of the text).
SplitSecond(text) ==
    LET first == Min(MarkerPositions(text))
        later == {i \in MarkerPositions(text) : i > first}
        last  == IF later = {} THEN Len(text) ELSE Min(later) - 1
    IN SubSeq(text, first + 1, last)

RECURSIVE LStrip(_)
LStrip(s) == IF s # <<>> /\ Head(s).t = "ws" THEN LStrip(Tail(s)) ELSE s

RECURSIVE RStrip(_)
RStrip(s) ==
    IF s # <<>> /\ s[Len(s)].t = "ws" THEN RStrip(SubSeq(s, 1, Len(s) - 1)) ELSE s

\* str.strip()
Strip(s) == RStrip(LStrip(s))

\* line 56
ActionInputPart(text) == Strip(SplitSecond(text))

\* json.loads succeeds: the text is exactly one JSON value
JsonLoadsOk(part) == Len(part) = 1 /\ part[1].t \in {"js", "arr"}

\* json.loads(part) is a dict, so that item assignment works (line 62)
IsDict(part) == JsonLoadsOk(part) /\ part[1].t = "js"

\* json.loads
JsonLoads(part) == part[1].obj

\* json.dumps: one fixed formatting, keys in document order
JsonDumps(obj) == <<Js("canon", obj)>>

HasKey(obj, k) == \E i \in DOMAIN obj : obj[i][1] = k

\* An assignment that builds the record anew and loses the other fields.
SetItemAlone(obj, k, v) == << <<k, v>> >>

\* d[k] = v on a dict: an existing key keeps its place, a new key goes last
SetItem(obj, k, v) ==
    IF HasKey(obj, k)
    THEN [i \in DOMAIN obj |-> IF obj[i][1] = k THEN <<k, v>> ELSE obj[i]]
    ELSE Append(obj, <<k, v>>)

IsPrefix(p, s) == Len(p) <= Len(s) /\ SubSeq(s, 1, Len(p)) = p

\* str.replace(old, new): every non-overlapping occurrence, left to right
RECURSIVE Replace(_, _, _)
Replace(s, old, new) ==
    IF s = <<>> \/ old = <<>> THEN s
    ELSE IF IsPrefix(old, s)
         THEN new \o Replace(SubSeq(s, Len(old) + 1, Len(s)), old, new)
         ELSE <<Head(s)>> \o Replace(Tail(s), old, new)

\* ------------------------------------------------------------ the rewrite
\* An abandoned rewrite that has already cut the extracted part out.
RewriteAbandonedPartial(content, part) == Replace(content, part, <<>>)

\* The except branch (lines 70-71): nothing was assigned, the copy keeps the
\* completion as it was.
RewriteAbandoned(content, part) == content

\* Lines 60-65: parse, overwrite "input", re-serialise, substitute.
RewriteSubstituted(content, part, q) ==
    Replace(content, part,
            JsonDumps(SetItem(JsonLoads(part), "input", QUERY_ENGINE_PROMPT_FORMATTER(q))))

\* Lines 49-71 as a function of the completion text and the user's message:
\* the text the copy holds afterwards and whether lines 65-69 ran.
RewriteOutcome(content, q) ==
    IF HasMarker(content)
    THEN LET part == ActionInputPart(content)
         IN IF IsDict(part)
            THEN [applied |-> TRUE, text |-> RewriteSubstituted(content, part, q)]
            ELSE [applied |-> FALSE, text |-> RewriteAbandoned(content, part)]
    ELSE [applied |-> FALSE, text |-> content]

\* ----------------------------------------------------------- reasoning steps
ActionStep(a, inp) ==
    [kind |-> "Action", action |-> a, action_input |-> inp, text |-> ""]
ObservationStep(o) ==
    [kind |-> "Observation", action |-> "", action_input |-> <<>>, text |-> o]
ResponseStep(r) ==
    [kind |-> "Response", action |-> "", action_input |-> <<>>, text |-> r]

HasTok(text, kinds) == \E i \in DOMAIN text : text[i].t \in kinds

\* The JSON objects that follow the first marker.
ObjectsAfterMarker(text) ==
    {i \in DOMAIN text : text[i].t = "js" /\ i > Min(MarkerPositions(text))}

\* The Reasoning-Step Parser: which of its two shapes the text has.
ParseKind(text) ==
    IF HasTok(text, {"Th"}) /\ HasTok(text, {"An"}) THEN "Response"
    ELSE IF /\ HasTok(text, {"Th"})
            /\ HasTok(text, {"Ac", "AcU"})
            /\ HasMarker(text)
            /\ ObjectsAfterMarker(text) # {}
         THEN "Action"
         ELSE "Malformed"

ParsedAction(text) ==
    LET i == Min({j \in DOMAIN text : text[j].t \in {"Ac", "AcU"}})
    IN IF text[i].t = "Ac" THEN "query_tool" ELSE "other_tool"

ParsedActionInput(text) == text[Min(ObjectsAfterMarker(text))].obj

\* str(tool_output) of the query tool
ToolOutputs == {"out"}

\* ------------------------------------------------------------ control flow
\* A loop that runs one round too many.
RangeHasNextOffByOne(i, n) == i <= n

\* for _ in range(self._max_iterations): another round is begun (line 35)
RangeHasNext(i, n) == i < n

\* A loop that ignores is_done.
BreakLoopNever(done) == FALSE

\* if is_done: break (lines 77-78)
BreakLoop(done) == done

\* An observation put in front of the step that caused it.
AppendObservationFirst(steps, obs) == <<obs>> \o steps

\* current_reasoning.append(observation_step) (line 108)
AppendObservation(steps, obs) == Append(steps, obs)

\* A copy that shares its fields with the original: what is written to the
\* copy shows in the original.
OriginalAliased(original, written) == written

\* copy.deepcopy (line 46): what the backend returned, after lines 68-69
\* have written to the copy.
OriginalAfterWrite(original, written) == original

\* An update of the raw form only.
MessageContentStale(applied, old, new) == old

\* chat_response_copy.message.content = response_content (line 69)
MessageContentAfter(applied, old, new) == IF applied THEN new ELSE old

NoResponse == [raw |-> <<>>, msg |-> <<>>]

NoPrompt == [chat_history |-> <<>>, current_reasoning |-> <<>>]

\* The event opened by self.callback_manager.event(CBEventType.FUNCTION_CALL,
\* payload={FUNCTION_CALL: action_input, ...}) (lines 97-103)
StartEvent(action_input) == [type |-> "start", input |-> action_input, output |-> ""]

\* event.on_end(payload={FUNCTION_OUTPUT: str(tool_output)}) (line 105)
EndEvent(out) == [type |-> "end", input |-> <<>>, output |-> out]

\* A dispatch whose end event is never emitted.
EventsUnended(log, out) == log

\* The events once line 105 has run.
EventsEnded(log, out) == Append(log, EndEvent(out))

TypeOK ==
    /\ pc \in {"idle", "loop", "rewrite", "process", "lookup", "call", "on_end",
               "observe", "extend", "respond", "returned", "raised"}
    /\ event_open \in BOOLEAN
    /\ max_iterations \in 0..MaxIter
    /\ it \in 0..(MaxIter + 1)
    /\ turns \in 0..MaxTurns
    /\ is_done \in BOOLEAN
    /\ rewrite_applied \in BOOLEAN
    /\ exc \in {"none", "ValueError", "KeyError", "ToolError", "ResponseError"}

\* generate_embeddings has not been called.
EmbedIdle ==
    /\ main_pc = "idle"
    /\ num_threads = 1
    /\ uses_token_counter = FALSE
    /\ task = <<>>
    /\ error = <<>>
    /\ logged = <<>>
    /\ embedding = <<>>
    /\ attempts = <<>>
    /\ progress_counter = 0
    /\ lock = 0
    /\ local_value = <<>>
    /\ collected = 0

Init ==
    /\ pc = "idle"
    /\ max_iterations \in 0..MaxIter
    /\ memory = <<>>
    /\ message = "q1"
    /\ current_reasoning = <<>>
    /\ it = 0
    /\ chat_response = NoResponse
    /\ chat_response_copy = NoResponse
    /\ rewrite_applied = FALSE
    /\ reasoning_steps = <<>>
    /\ is_done = FALSE
    /\ tool_output = ""
    /\ response = ""
    /\ exc = "none"
    /\ turns = 0
    /\ llm_calls = 0
    /\ tool_calls = 0
    /\ puts = 0
    /\ chat_history = NoHistory
    /\ memory_before = <<>>
    /\ emitted = <<>>
    /\ input_chat = NoPrompt
    /\ events = <<>>
    /\ event_open = FALSE
    /\ EmbedIdle

\* A reset that takes an empty history for no history.
MemorySetIfAny(mem, history) ==
    IF history.given /\ history.log # <<>> THEN history.log ELSE mem

\* if chat_history is not None: self._memory.set(chat_history) (lines 24-25)
MemorySet(mem, history) == IF history.given THEN history.log ELSE mem

\* self._memory.put(message)
MemoryPut(mem, msg) == Append(mem, msg)

\* ChatMessage(content=message_with_tool_description, role="user") (line 30)
UserMessage(q) == [role |-> "user", content |-> message_with_tool_description(q)]

\* ChatMessage(content=response.response, role=MessageRole.ASSISTANT) (line 82)
AssistantMessage(text) == [role |-> "assistant", content |-> <<text>>]

\* A trace that outlives the invocation that built it.
KeptReasoning(previous) == previous

\* current_reasoning: List[BaseReasoningStep] = [] (line 32)
FreshReasoning(previous) == <<>>

\* chat is entered: lines 24-32.
ChatStart(q, history) ==
    /\ UNCHANGED evars
    /\ pc \in {"idle", "returned", "raised"}
    /\ turns < MaxTurns
    /\ turns' = turns + 1
    /\ message' = q
    /\ chat_history' = history
    /\ memory_before' = memory
    /\ emitted' = <<>>
    /\ input_chat' = NoPrompt
    /\ events' = <<>>
    /\ event_open' = FALSE
    /\ memory' = MemoryPut(MemorySet(memory, history), UserMessage(q))
    /\ puts' = 1
    /\ current_reasoning' = FreshReasoning(current_reasoning)
    /\ it' = 0
    /\ chat_response' = NoResponse
    /\ chat_response_copy' = NoResponse
    /\ rewrite_applied' = FALSE
    /\ reasoning_steps' = <<>>
    /\ is_done' = FALSE
    /\ tool_output' = ""
    /\ response' = ""
    /\ exc' = "none"
    /\ llm_calls' = 0
    /\ tool_calls' = 0
    /\ pc' = "loop"
    /\ UNCHANGED max_iterations

\* A prompt built from the chat history alone.
FormatInputHistoryOnly(history, reasoning) ==
    [chat_history |-> history, current_reasoning |-> <<>>]

\* self._react_chat_formatter.format(chat_history=self._memory.get(),
\* current_reasoning=current_reasoning) (lines 37-39): the prompt, as what it
\* is built from.
FormatInput(history, reasoning) ==
    [chat_history |-> history, current_reasoning |-> reasoning]

\* What the backend's completion is, before any rewrite: an action block
\* naming the registered tool, a final answer, or anything else.
CompletionShape(completion) ==
    IF ParseKind(completion) = "Response" THEN "answer"
    ELSE IF ParseKind(completion) = "Action" /\ ParsedAction(completion) \in tools_dict
         THEN "action"
         ELSE "other"

\* One more round: format, self._llm.chat, copy.deepcopy (lines 35-46).
LlmCall(completion) ==
    /\ UNCHANGED evars
    /\ pc = "loop"
    /\ RangeHasNext(it, max_iterations)
    /\ it' = it + 1
    /\ llm_calls' = llm_calls + 1
    /\ chat_response' = [raw |-> completion, msg |-> completion]
    /\ chat_response_copy' = [raw |-> completion, msg |-> completion]
    /\ rewrite_applied' = FALSE
    /\ input_chat' = FormatInput(memory, current_reasoning)
    /\ emitted' = Append(emitted, CompletionShape(completion))
    /\ pc' = "rewrite"
    /\ UNCHANGED <<max_iterations, memory, message, current_reasoning,
                   reasoning_steps, is_done, tool_output, response, exc, turns,
                   tool_calls, puts,
                   chat_history, memory_before, events, event_open>>

\* range(self._max_iterations) is used up: the loop is left (line 35).
LoopExhausted ==
    /\ UNCHANGED evars
    /\ pc = "loop"
    /\ ~RangeHasNext(it, max_iterations)
    /\ pc' = "respond"
    /\ UNCHANGED <<max_iterations, memory, message, current_reasoning, it,
                   chat_response, chat_response_copy, rewrite_applied,
                   reasoning_steps, is_done, tool_output, response, exc, turns,
                   llm_calls, tool_calls, puts,
                   chat_history, memory_before, emitted,
                   input_chat, events, event_open>>

\* Enforce the user question into Action Input (lines 49-71).
Rewrite ==
    /\ UNCHANGED evars
    /\ pc = "rewrite"
    /\ LET out == RewriteOutcome(chat_response_copy.raw, message)
       IN /\ rewrite_applied' = out.applied
          /\ chat_response_copy' =
                [raw |-> out.text,
                 msg |-> MessageContentAfter(out.applied, chat_response_copy.msg, out.text)]
          /\ chat_response' =
                OriginalAfterWrite(chat_response, [raw |-> out.text, msg |-> out.text])
    /\ pc' = "process"
    /\ UNCHANGED <<max_iterations, memory, message, current_reasoning, it,
                   reasoning_steps, is_done, tool_output,
                   response, exc, turns, llm_calls, tool_calls, puts,
                   chat_history, memory_before, emitted,
                   input_chat, events, event_open>>

\* _process_actions, lines 89-92: self._extract_reasoning_step(output).
ExtractReasoningStep ==
    /\ UNCHANGED evars
    /\ pc = "process"
    /\ LET text == chat_response_copy.msg
           kind == ParseKind(text)
       IN \/ /\ kind = "Malformed"
             /\ exc' = "ValueError"
             /\ pc' = "raised"
             /\ UNCHANGED <<reasoning_steps, is_done>>
          \/ /\ kind = "Response"
             /\ reasoning_steps' = <<ResponseStep("A")>>
             /\ is_done' = TRUE
             /\ pc' = "extend"
             /\ UNCHANGED exc
          \/ /\ kind = "Action"
             /\ reasoning_steps' =
                    <<ActionStep(ParsedAction(text), ParsedActionInput(text))>>
             /\ is_done' = FALSE
             /\ pc' = "lookup"
             /\ UNCHANGED exc
    /\ UNCHANGED <<max_iterations, memory, message, current_reasoning, it,
                   chat_response, chat_response_copy, rewrite_applied,
                   tool_output, response, turns, llm_calls, tool_calls, puts,
                   chat_history, memory_before, emitted,
                   input_chat, events, event_open>>

\* tool = self._tools_dict[reasoning_step.action]; the with block is entered
\* (lines 95-103)
ToolLookup ==
    /\ UNCHANGED evars
    /\ pc = "lookup"
    /\ LET reasoning_step == reasoning_steps[Len(reasoning_steps)]
       IN IF reasoning_step.action \in tools_dict
          THEN /\ pc' = "call"
               /\ events' = Append(events, StartEvent(reasoning_step.action_input))
               /\ event_open' = TRUE
               /\ UNCHANGED exc
          ELSE /\ pc' = "raised"
               /\ exc' = "KeyError"
               /\ UNCHANGED <<events, event_open>>
    /\ UNCHANGED <<max_iterations, memory, message, current_reasoning, it,
                   chat_response, chat_response_copy, rewrite_applied,
                   reasoning_steps, is_done, tool_output, response, turns,
                   llm_calls, tool_calls, puts,
                   chat_history, memory_before, emitted, input_chat>>

\* tool.call(**reasoning_step.action_input) returns (line 104)
ToolCallReturns(out) ==
    /\ UNCHANGED evars
    /\ pc = "call"
    /\ tool_calls' = tool_calls + 1
    /\ tool_output' = out
    /\ pc' = "on_end"
    /\ UNCHANGED <<max_iterations, memory, message, current_reasoning, it,
                   chat_response, chat_response_copy, rewrite_applied,
                   reasoning_steps, is_done, response, exc, turns, llm_calls, puts,
                   chat_history, memory_before, emitted, input_chat, events, event_open>>

\* tool.call(**reasoning_step.action_input) raises (line 104): line 105 is
\* skipped, the with block is left and the exception goes on.
ToolCallRaises ==
    /\ UNCHANGED evars
    /\ pc = "call"
    /\ tool_calls' = tool_calls + 1
    /\ event_open' = FALSE
    /\ exc' = "ToolError"
    /\ pc' = "raised"
    /\ UNCHANGED <<max_iterations, memory, message, current_reasoning, it,
                   chat_response, chat_response_copy, rewrite_applied,
                   reasoning_steps, is_done, tool_output, response, turns, llm_calls, puts,
                   chat_history, memory_before, emitted, input_chat, events>>

\* event.on_end(...) and the end of the with block (line 105)
EventOnEnd ==
    /\ UNCHANGED evars
    /\ pc = "on_end"
    /\ events' = EventsEnded(events, tool_output)
    /\ event_open' = FALSE
    /\ pc' = "observe"
    /\ UNCHANGED <<max_iterations, memory, message, current_reasoning, it,
                   chat_response, chat_response_copy, rewrite_applied,
                   reasoning_steps, is_done, tool_output, response, exc, turns,
                   llm_calls, tool_calls, puts,
                   chat_history, memory_before, emitted, input_chat>>

\* The observation is appended and _process_actions returns (lines 107-111).
Observe ==
    /\ UNCHANGED evars
    /\ pc = "observe"
    /\ reasoning_steps' = AppendObservation(reasoning_steps, ObservationStep(tool_output))
    /\ pc' = "extend"
    /\ UNCHANGED <<max_iterations, memory, message, current_reasoning, it,
                   chat_response, chat_response_copy, rewrite_applied, is_done,
                   tool_output, response, exc, turns, llm_calls, tool_calls, puts,
                   chat_history, memory_before, emitted,
                   input_chat, events, event_open>>

\* A trace that keeps only the steps of the last round.
ReasoningReplaced(trace, steps) == steps

\* current_reasoning.extend(reasoning_steps) (line 75)
ReasoningExtended(trace, steps) == trace \o steps

\* current_reasoning.extend(reasoning_steps); if is_done: break (lines 75-78)
Extend ==
    /\ UNCHANGED evars
    /\ pc = "extend"
    /\ current_reasoning' = ReasoningExtended(current_reasoning, reasoning_steps)
    /\ pc' = IF BreakLoop(is_done) THEN "respond" ELSE "loop"
    /\ UNCHANGED <<max_iterations, memory, message, it, chat_response,
                   chat_response_copy, rewrite_applied, reasoning_steps, is_done,
                   tool_output, response, exc, turns, llm_calls, tool_calls, puts,
                   chat_history, memory_before, emitted,
                   input_chat, events, event_open>>

EndsInResponse(trace) == trace # <<>> /\ trace[Len(trace)].kind = "Response"

\* response = self._get_response(current_reasoning); self._memory.put(...);
\* return response (lines 80-84), on a trace that ends in a final answer.
Respond ==
    /\ UNCHANGED evars
    /\ pc = "respond"
    /\ EndsInResponse(current_reasoning)
    /\ response' = current_reasoning[Len(current_reasoning)].text
    /\ memory' = MemoryPut(memory, AssistantMessage(current_reasoning[Len(current_reasoning)].text))
    /\ puts' = puts + 1
    /\ pc' = "returned"
    /\ UNCHANGED <<max_iterations, message, current_reasoning, it, chat_response,
                   chat_response_copy, rewrite_applied, reasoning_steps, is_done,
                   tool_output, exc, turns, llm_calls, tool_calls,
                   chat_history, memory_before, emitted,
                   input_chat, events, event_open>>

\* Lines 80-84 on a trace without a final answer.  _get_response is inherited
\* from the framework's agent class; chat adds neither a fallback nor a
\* handler of its own, so both outcomes of the inherited method are kept:
\* it returns a text derived from the trace,
RespondWithoutAnswer ==
    /\ UNCHANGED evars
    /\ pc = "respond"
    /\ ~EndsInResponse(current_reasoning)
    /\ response' = "derived"
    /\ memory' = MemoryPut(memory, AssistantMessage("derived"))
    /\ puts' = puts + 1
    /\ pc' = "returned"
    /\ UNCHANGED <<max_iterations, message, current_reasoning, it, chat_response,
                   chat_response_copy, rewrite_applied, reasoning_steps, is_done,
                   tool_output, exc, turns, llm_calls, tool_calls,
                   chat_history, memory_before, emitted,
                   input_chat, events, event_open>>

\* or it raises, and the exception leaves chat.
RespondRaises ==
    /\ UNCHANGED evars
    /\ pc = "respond"
    /\ ~EndsInResponse(current_reasoning)
    /\ exc' = "ResponseError"
    /\ pc' = "raised"
    /\ UNCHANGED <<max_iterations, memory, message, current_reasoning, it,
                   chat_response, chat_response_copy, rewrite_applied,
                   reasoning_steps, is_done, tool_output, response, turns,
                   llm_calls, tool_calls, puts,
                   chat_history, memory_before, emitted,
                   input_chat, events, event_open>>

Next ==
    \/ \E q \in Questions, history \in HistoryArgs : ChatStart(q, history)
    \/ \E c \in Completions : LlmCall(c)
    \/ LoopExhausted
    \/ Rewrite
    \/ ExtractReasoningStep
    \/ ToolLookup
    \/ \E out \in ToolOutputs : ToolCallReturns(out)
    \/ ToolCallRaises
    \/ EventOnEnd
    \/ Observe
    \/ Extend
    \/ Respond
    \/ RespondWithoutAnswer
    \/ RespondRaises

Spec == Init /\ [][Next]_vars

\* ------------------------------------------------------ generate_embeddings
\* embed.py.  A node is a number in 1..total_nodes.  Its task is
\*   "pending"    submitted by executor.map, not yet taken by a worker
\*   "tokens"     in lines 37-47 (get_content, token counting)
\*   "embed"      in lines 49-50 (get_text_embedding, node.embedding = ...)
\*   "lock"       at line 52, waiting for progress_counter.get_lock()
\*   "read"       holding the lock, before the read of line 53
\*   "write"      holding the lock, between the read and the write of line 53
\*   "done"       returned after the with block
\*   "failed"     returned from the except branch (lines 58-59)
\*   "exited"     left by an exception that the except branch does not catch
\*   "cancelled"  its future was cancelled before a worker took it
total_nodes == Len(task)

Nodes == 1..total_nodes

Running == {n \in Nodes : task[n] \in {"tokens", "embed", "lock", "read", "write"}}

Pending == {n \in Nodes : task[n] = "pending"}

\* A with block that does not wait for the lock.
LockIgnored(holder) == TRUE

\* with progress_counter.get_lock(): the lock can be taken (line 52)
LockFree(holder) == holder = 0

\* except Exception as e: logging.error(...) (lines 58-59): an Exception ends
\* the call normally; SystemExit is no Exception and leaves the call.
ExceptionOutcome(e) == IF e = "Exception" THEN "failed" ELSE "exited"

\* The state right after executor.map has submitted one call per node
\* (lines 65-76).
InitEmbed ==
    /\ pc = "idle"
    /\ max_iterations = 0
    /\ memory = <<>>
    /\ message = "q1"
    /\ current_reasoning = <<>>
    /\ it = 0
    /\ chat_response = NoResponse
    /\ chat_response_copy = NoResponse
    /\ rewrite_applied = FALSE
    /\ reasoning_steps = <<>>
    /\ is_done = FALSE
    /\ tool_output = ""
    /\ response = ""
    /\ exc = "none"
    /\ turns = 0
    /\ llm_calls = 0
    /\ tool_calls = 0
    /\ puts = 0
    /\ chat_history = NoHistory
    /\ memory_before = <<>>
    /\ emitted = <<>>
    /\ input_chat = NoPrompt
    /\ events = <<>>
    /\ event_open = FALSE
    /\ main_pc = "collect"
    /\ num_threads \in 1..MaxThreads
    /\ uses_token_counter \in BOOLEAN
    /\ \E n \in 0..MaxNodes :
          /\ task = [i \in 1..n |-> "pending"]
          /\ error = [i \in 1..n |-> "none"]
          /\ logged = [i \in 1..n |-> 0]
          /\ embedding = [i \in 1..n |-> FALSE]
          /\ attempts = [i \in 1..n |-> 0]
          /\ local_value = [i \in 1..n |-> 0]
    /\ progress_counter = 0
    /\ lock = 0
    /\ collected = 0

\* A worker thread of the pool takes the next call from the queue and enters
\* generate_node_embedding (line 34).
WorkerTake(n) ==
    /\ main_pc # "idle"
    /\ n \in Pending
    /\ \A m \in Pending : n <= m
    /\ Cardinality(Running) < num_threads
    /\ task' = [task EXCEPT ![n] = "tokens"]
    /\ attempts' = [attempts EXCEPT ![n] = @ + 1]
    /\ UNCHANGED <<main_pc, num_threads, uses_token_counter, error, logged,
                   embedding, progress_counter, lock, local_value, collected>>
    /\ UNCHANGED cvars

\* Lines 37-47 run through.
TokensCounted(n) ==
    /\ n \in Nodes
    /\ task[n] = "tokens"
    /\ task' = [task EXCEPT ![n] = "embed"]
    /\ UNCHANGED <<main_pc, num_threads, uses_token_counter, error, logged,
                   embedding, attempts, progress_counter, lock, local_value,
                   collected>>
    /\ UNCHANGED cvars

\* Lines 37-47 raise an Exception (get_content, the token counter).
TokensRaise(n) ==
    /\ n \in Nodes
    /\ task[n] = "tokens"
    /\ task' = [task EXCEPT ![n] = ExceptionOutcome("Exception")]
    /\ error' = [error EXCEPT ![n] = "Exception"]
    /\ logged' = [logged EXCEPT ![n] = IF ExceptionOutcome("Exception") = "failed"
                                        THEN @ + 1 ELSE @]
    /\ UNCHANGED <<main_pc, num_threads, uses_token_counter, embedding, attempts,
                   progress_counter, lock, local_value, collected>>
    /\ UNCHANGED cvars

\* num_tokens_from_string fails (line 39): it logs and calls exit(1)
\* (lines 28-30), which raises SystemExit in the worker thread.
TokensExit(n) ==
    /\ n \in Nodes
    /\ task[n] = "tokens"
    /\ uses_token_counter
    /\ task' = [task EXCEPT ![n] = ExceptionOutcome("SystemExit")]
    /\ error' = [error EXCEPT ![n] = "SystemExit"]
    /\ logged' = [logged EXCEPT ![n] = @ + 1]
    /\ UNCHANGED <<main_pc, num_threads, uses_token_counter, embedding, attempts,
                   progress_counter, lock, local_value, collected>>
    /\ UNCHANGED cvars

\* get_text_embedding returns and node.embedding is set (lines 49-50).
EmbedReturns(n) ==
    /\ n \in Nodes
    /\ task[n] = "embed"
    /\ embedding' = [embedding EXCEPT ![n] = TRUE]
    /\ task' = [task EXCEPT ![n] = "lock"]
    /\ UNCHANGED <<main_pc, num_threads, uses_token_counter, error, logged,
                   attempts, progress_counter, lock, local_value, collected>>
    /\ UNCHANGED cvars

\* get_text_embedding raises (line 49).
EmbedRaises(n) ==
    /\ n \in Nodes
    /\ task[n] = "embed"
    /\ task' = [task EXCEPT ![n] = ExceptionOutcome("Exception")]
    /\ error' = [error EXCEPT ![n] = "Exception"]
    /\ logged' = [logged EXCEPT ![n] = IF ExceptionOutcome("Exception") = "failed"
                                        THEN @ + 1 ELSE @]
    /\ UNCHANGED <<main_pc, num_threads, uses_token_counter, embedding, attempts,
                   progress_counter, lock, local_value, collected>>
    /\ UNCHANGED cvars

\* with progress_counter.get_lock(): (line 52)
LockAcquire(n) ==
    /\ n \in Nodes
    /\ task[n] = "lock"
    /\ LockFree(lock)
    /\ lock' = n
    /\ task' = [task EXCEPT ![n] = "read"]
    /\ UNCHANGED <<main_pc, num_threads, uses_token_counter, error, logged,
                   embedding, attempts, progress_counter, local_value, collected>>
    /\ UNCHANGED cvars

\* progress_counter.value += 1, the read (line 53)
CounterRead(n) ==
    /\ n \in Nodes
    /\ task[n] = "read"
    /\ local_value' = [local_value EXCEPT ![n] = progress_counter]
    /\ task' = [task EXCEPT ![n] = "write"]
    /\ UNCHANGED <<main_pc, num_threads, uses_token_counter, error, logged,
                   embedding, attempts, progress_counter, lock, collected>>
    /\ UNCHANGED cvars

\* progress_counter.value += 1, the write; the progress log; the end of the
\* with block, which gives the lock back (lines 53-56).
CounterWrite(n) ==
    /\ n \in Nodes
    /\ task[n] = "write"
    /\ progress_counter' = local_value[n] + 1
    /\ local_value' = [local_value EXCEPT ![n] = 0]
    /\ lock' = IF lock = n THEN 0 ELSE lock
    /\ task' = [task EXCEPT ![n] = "done"]
    /\ UNCHANGED <<main_pc, num_threads, uses_token_counter, error, logged,
                   embedding, attempts, collected>>
    /\ UNCHANGED cvars

\* list(executor.map(...)) takes the next result, in the order of the nodes
\* (line 76).
CollectResult ==
    /\ main_pc = "collect"
    /\ collected < total_nodes
    /\ task[collected + 1] \in {"done", "failed"}
    /\ collected' = collected + 1
    /\ UNCHANGED <<main_pc, num_threads, uses_token_counter, task, error, logged,
                   embedding, attempts, progress_counter, lock, local_value>>
    /\ UNCHANGED cvars

\* The next result is an exception (line 76): executor.map cancels the
\* futures it has not yielded and that no worker has taken, and the
\* exception goes on to the end of the with block.
CollectException ==
    /\ main_pc = "collect"
    /\ collected < total_nodes
    /\ task[collected + 1] = "exited"
    /\ task' = [n \in Nodes |->
                   IF n > collected + 1 /\ task[n] = "pending"
                   THEN "cancelled" ELSE task[n]]
    /\ main_pc' = "unwinding"
    /\ UNCHANGED <<num_threads, uses_token_counter, error, logged, embedding,
                   attempts, progress_counter, lock, local_value, collected>>
    /\ UNCHANGED cvars

\* All results are taken; the with block ends and generate_embeddings
\* returns (lines 75-76).
EmbeddingsReturn ==
    /\ main_pc = "collect"
    /\ collected = total_nodes
    /\ main_pc' = "returned"
    /\ UNCHANGED <<num_threads, uses_token_counter, task, error, logged,
                   embedding, attempts, progress_counter, lock, local_value,
                   collected>>
    /\ UNCHANGED cvars

\* The with block ends on an exception: shutdown(wait=True) lets the
\* workers finish, then the exception leaves generate_embeddings (line 75).
EmbeddingsRaise ==
    /\ main_pc = "unwinding"
    /\ Running = {}
    /\ Pending = {}
    /\ main_pc' = "raised"
    /\ UNCHANGED <<num_threads, uses_token_counter, task, error, logged,
                   embedding, attempts, progress_counter, lock, local_value,
                   collected>>
    /\ UNCHANGED cvars

NextEmbed ==
    \/ \E n \in Nodes : WorkerTake(n)
    \/ \E n \in Nodes : TokensCounted(n)
    \/ \E n \in Nodes : TokensRaise(n)
    \/ \E n \in Nodes : TokensExit(n)
    \/ \E n \in Nodes : EmbedReturns(n)
    \/ \E n \in Nodes : EmbedRaises(n)
    \/ \E n \in Nodes : LockAcquire(n)
    \/ \E n \in Nodes : CounterRead(n)
    \/ \E n \in Nodes : CounterWrite(n)
    \/ CollectResult
    \/ CollectException
    \/ EmbeddingsReturn
    \/ EmbeddingsRaise

SpecEmbed == InitEmbed /\ [][NextEmbed]_vars

TypeOKEmbed ==
    /\ main_pc \in {"idle", "collect", "unwinding", "returned", "raised"}
    /\ num_threads \in 1..MaxThreads
    /\ \A n \in Nodes :
          /\ task[n] \in {"pending", "tokens", "embed", "lock", "read", "write",
                          "done", "failed", "exited", "cancelled"}
          /\ error[n] \in {"none", "Exception", "SystemExit"}
    /\ lock \in 0..total_nodes
    /\ progress_counter \in 0..MaxNodes
    /\ collected \in 0..total_nodes

\* ------------------------------------------------------------------ claims
\* The steps of the turn so far: chat's list, followed by the steps
\* _process_actions holds and has not handed over yet.
FullTrace ==
    current_reasoning \o
        (IF pc \in {"lookup", "call", "on_end", "observe", "extend"}
         THEN reasoning_steps ELSE <<>>)

HasResponse(trace) == \E i \in DOMAIN trace : trace[i].kind = "Response"

NoMarkerToken(text) == \A i \in DOMAIN text : text[i].t # "AI"

\* C1: a chat invocation never makes more than max_iterations calls to the
\* language-model backend, whatever the backend answers.
C1_BoundedModelCalls == llm_calls <= max_iterations

C1_Witness ==
    /\ pc = "respond"
    /\ max_iterations >= 2
    /\ llm_calls = max_iterations
    /\ ~HasResponse(current_reasoning)

\* C2: every chat invocation that has ended, by returning or by an exception
\* of the parser or of the tool dispatch, has performed exactly two Chat
\* Memory put operations.
C2_ExactlyTwoPuts ==
    (pc = "returned" \/ exc \in {"ValueError", "KeyError", "ToolError"}) => puts = 2

C4_StopsAfterFinalAnswer ==
    [][ turns' = turns =>
          /\ is_done => (llm_calls' = llm_calls /\ tool_calls' = tool_calls)
          /\ HasResponse(current_reasoning) => current_reasoning' = current_reasoning
      ]_vars

C4_Witness ==
    /\ pc = "returned"
    /\ HasResponse(current_reasoning)
    /\ it < max_iterations

\* C6: after an action name that is not in the registry has been dispatched,
\* no exception has left chat and an ObservationStep follows the ActionStep.
C6_UnknownToolObserved ==
    (/\ pc \notin {"idle", "loop", "rewrite", "process", "lookup"}
     /\ reasoning_steps # <<>>
     /\ reasoning_steps[1].kind = "Action"
     /\ reasoning_steps[1].action \notin tools_dict)
    => (/\ exc = "none"
        /\ Len(reasoning_steps) = 2
        /\ reasoning_steps[2].kind = "Observation")

\* C7: an exception raised by the tool never leaves chat.
C7_ToolExceptionObserved == exc # "ToolError"

\* C8: after a completion of neither shape has been handed to the parser, no
\* exception has left chat and the turn is on its way to its response.
C8_MalformedOutputAnswered ==
    (/\ pc \notin {"idle", "loop", "rewrite", "process"}
     /\ chat_response_copy # NoResponse
     /\ ParseKind(chat_response_copy.msg) = "Malformed")
    => (exc = "none" /\ pc \in {"respond", "returned"})

\* C9: when the text after the marker is not a JSON object, the parser is
\* reached without an exception and both content fields of the copy equal the
\* backend's completion.
C9_AbandonedRewriteKeepsOriginal ==
    (/\ pc = "process"
     /\ ~NoMarkerToken(chat_response.raw)
     /\ ~IsDict(ActionInputPart(chat_response.raw)))
    => (/\ ~rewrite_applied
        /\ chat_response_copy.raw = chat_response.raw
        /\ chat_response_copy.msg = chat_response.msg
        /\ exc = "none")

C9_Witness ==
    /\ pc = "process"
    /\ ~NoMarkerToken(chat_response.raw)
    /\ ActionInputPart(chat_response.raw) # <<>>
    /\ ~IsDict(ActionInputPart(chat_response.raw))

\* C10: for a completion without the marker the rewrite changes nothing:
\* rewrite_applied is false and the text handed to the parser is the
\* completion.
C10_NoMarkerNoRewrite ==
    (/\ pc = "process"
     /\ NoMarkerToken(chat_response.raw))
    => (/\ ~rewrite_applied
        /\ chat_response_copy.raw = chat_response.raw
        /\ chat_response_copy.msg = chat_response.raw)

C10_Witness ==
    /\ pc = "process"
    /\ NoMarkerToken(chat_response.raw)
    /\ HasTok(chat_response.raw, {"js"})

\* The first token after the first marker that is not white space, as a
\* text of length one (empty when nothing follows the marker).
RecordAfterMarker(text) ==
    LET rest == LStrip(SubSeq(text, Min(MarkerPositions(text)) + 1, Len(text)))
    IN IF rest = <<>> THEN <<>> ELSE <<Head(rest)>>

\* The fields of a record other than "input", in document order.
OtherFields(obj) == SelectSeq(obj, LAMBDA p : p[1] # "input")

InputValues(obj) == {obj[i][2] : i \in {j \in DOMAIN obj : obj[j][1] = "input"}}

\* C11: when the text after the marker is a JSON object, the rewrite is
\* applied and the record after the marker, in both content fields of the
\* copy, has "input" equal to the template applied to the user's message and
\* every other field with its original key and value.
C11_RewrittenRecord ==
    (/\ pc = "process"
     /\ ~NoMarkerToken(chat_response.raw)
     /\ IsDict(ActionInputPart(chat_response.raw)))
    => /\ rewrite_applied
       /\ \A text \in {chat_response_copy.raw, chat_response_copy.msg} :
             LET rec == RecordAfterMarker(text)
             IN /\ IsDict(rec)
                /\ InputValues(JsonLoads(rec)) = {QUERY_ENGINE_PROMPT_FORMATTER(message)}
                /\ OtherFields(JsonLoads(rec)) =
                       OtherFields(JsonLoads(ActionInputPart(chat_response.raw)))

C11_Witness ==
    /\ pc = "process"
    /\ message = "q2"
    /\ ~NoMarkerToken(chat_response.raw)
    /\ IsDict(ActionInputPart(chat_response.raw))
    /\ OtherFields(JsonLoads(ActionInputPart(chat_response.raw))) # <<>>
    /\ chat_response_copy.raw # chat_response.raw

\* C12: the object the backend returned is changed by no step of the
\* rewrite, of the parsing or of the tool dispatch: within an invocation it
\* changes only when the backend is called again.
C12_BackendResponseUntouched ==
    [][ (turns' = turns /\ pc # "loop") => chat_response' = chat_response ]_vars

C12_Witness ==
    /\ pc = "process"
    /\ rewrite_applied
    /\ chat_response_copy.raw # chat_response.raw
    /\ chat_response.raw = chat_response.msg

\* C18: after the rewrite step the raw form and the message form of the copy
\* hold the same text: both the rewritten one when the rewrite was applied,
\* both the backend's one when it was not.
C18_BothFormsConsistent ==
    pc \in {"process", "lookup", "call", "on_end", "observe", "extend"} =>
        /\ chat_response_copy.raw = chat_response_copy.msg
        /\ ~rewrite_applied => chat_response_copy.raw = chat_response.raw
        /\ rewrite_applied =>
              chat_response_copy.raw =
                  RewriteSubstituted(chat_response.raw,
                                     ActionInputPart(chat_response.raw), message)

C18_Witness ==
    /\ pc = "process"
    /\ rewrite_applied
    /\ chat_response_copy.msg # chat_response.msg

\* The log the turn starts from: the history when one was passed, the
\* memory as it was otherwise.
StartLog == IF chat_history.given THEN chat_history.log ELSE memory_before

ChatEntered == pc \in {"idle", "returned", "raised"} /\ pc' = "loop"

\* C13: from the entry of chat on, and so before the first backend call,
\* the memory is the starting log (the history, when one was passed, in
\* place of everything the memory held) followed by the user message; when
\* chat has returned it is that followed by the assistant message.
C13_MemoryAfterTurn ==
    /\ pc \notin {"idle", "returned"} =>
          memory = StartLog \o <<UserMessage(message)>>
    /\ pc = "returned" =>
          memory = StartLog \o <<UserMessage(message), AssistantMessage(response)>>

C13_Witness ==
    /\ pc = "returned"
    /\ chat_history.given
    /\ chat_history.log = <<>>
    /\ memory_before # <<>>
    /\ Len(memory) = 2

\* C14: within an invocation the memory changes only by the put of the
\* assistant message, whose content is the response chat returns, so no
\* step of the trace is written to it; and every invocation starts with an
\* empty trace.
C14_OnlyFinalAnswerPersisted ==
    [][ /\ (memory' # memory /\ ~ChatEntered) =>
              /\ pc = "respond" /\ pc' = "returned"
              /\ memory' = Append(memory, AssistantMessage(response'))
        /\ ChatEntered => current_reasoning' = <<>>
      ]_vars

C14_Witness ==
    /\ pc = "returned"
    /\ turns = 2
    /\ response = "A"
    /\ Len(current_reasoning) = 3
    /\ memory_before # <<>>
    /\ memory[Len(memory)] = AssistantMessage("A")

Kinds(trace) == [i \in DOMAIN trace |-> trace[i].kind]

\* C15: when an invocation has ended in which the backend gave an action
\* block for the registered tool, the tool returned, and the backend then
\* gave a final answer, chat has returned that answer after exactly two
\* backend calls and one tool call, the memory has grown by two messages and
\* the trace is ActionStep, ObservationStep, FinalAnswerStep.
C15_EndToEnd ==
    (/\ pc \in {"returned", "raised"}
     /\ emitted = <<"action", "answer">>
     /\ exc # "ToolError")
    => /\ pc = "returned"
       /\ response = "A"
       /\ llm_calls = 2
       /\ tool_calls = 1
       /\ Len(memory) = Len(StartLog) + 2
       /\ Kinds(current_reasoning) = <<"Action", "Observation", "Response">>
       /\ current_reasoning[2].text = tool_output

C15_Witness ==
    /\ pc = "returned"
    /\ emitted = <<"action", "answer">>
    /\ max_iterations >= 2
    /\ response = "A"

\* Where the extracted part begins in the text: after the first marker and
\* the white space that strip() removed.
SpanStart(text) ==
    Min(MarkerPositions(text)) + 1
        + (Len(SplitSecond(text)) - Len(LStrip(SplitSecond(text))))

\* C16: when the rewrite is applied, the text before the extracted part and
\* the text after it are the same in the rewritten completion as in the
\* backend's completion.
C16_OnlySpanChanges ==
    (pc = "process" /\ rewrite_applied) =>
        LET orig == chat_response.raw
            new  == chat_response_copy.raw
            a    == SpanStart(orig)
            n    == Len(ActionInputPart(orig))
        IN /\ SubSeq(new, 1, a - 1) = SubSeq(orig, 1, a - 1)
           /\ SubSeq(new, a + 1, Len(new)) = SubSeq(orig, a + n, Len(orig))

\* C17: when a JSON object follows the marker, whatever comes after that
\* object, the rewrite is applied and the object's "input" is the template
\* applied to the user's message.
C17_ExtractionStopsAtRecord ==
    (/\ pc = "process"
     /\ ~NoMarkerToken(chat_response.raw)
     /\ IsDict(RecordAfterMarker(chat_response.raw)))
    => /\ rewrite_applied
       /\ IsDict(RecordAfterMarker(chat_response_copy.raw))
       /\ InputValues(JsonLoads(RecordAfterMarker(chat_response_copy.raw))) =
              {QUERY_ENGINE_PROMPT_FORMATTER(message)}

InRound == pc \in {"rewrite", "process", "lookup", "call", "on_end", "observe", "extend"}

\* The order of the steps of an invocation.
StepOrder ==
    { <<"loop", "rewrite">>, <<"rewrite", "process">>, <<"process", "lookup">>,
      <<"process", "extend">>, <<"lookup", "call">>, <<"call", "on_end">>,
      <<"on_end", "observe">>, <<"observe", "extend">>, <<"extend", "loop">>,
      <<"extend", "respond">>, <<"loop", "respond">>, <<"respond", "returned">>,
      <<"process", "raised">>, <<"lookup", "raised">>, <<"call", "raised">>,
      <<"respond", "raised">> }

\* What holds of the prompt of the round in progress.
PromptOfRound ==
    InRound =>
        /\ input_chat.chat_history = memory
        /\ memory[Len(memory)] = UserMessage(message)
        /\ input_chat.current_reasoning = current_reasoning
        /\ Len(current_reasoning) = 2 * (it - 1)
        /\ \A i \in 1..(it - 1) :
              /\ current_reasoning[2 * i - 1].kind = "Action"
              /\ current_reasoning[2 * i].kind = "Observation"

\* C19: within an invocation the steps follow one another in the order
\* format and backend call, rewrite, parse, tool dispatch, next round; the
\* backend is called only at the head of a round and the tool only after
\* the parse of that round; and the prompt of round i is built from the
\* memory, which ends in the current user message, and from the steps of
\* rounds 1..i-1, the observation of round i-1 included.
C19_SequentialCausalOrder ==
    [][ /\ (pc' # pc /\ ~ChatEntered) => <<pc, pc'>> \in StepOrder
        /\ llm_calls' # llm_calls /\ ~ChatEntered => (pc = "loop" /\ pc' = "rewrite")
        /\ tool_calls' # tool_calls /\ ~ChatEntered => (pc = "call" /\ tool_calls < llm_calls)
        /\ PromptOfRound'
      ]_vars

C19_Witness ==
    /\ pc = "rewrite"
    /\ it = 2
    /\ Len(input_chat.current_reasoning) = 2
    /\ input_chat.current_reasoning[2].kind = "Observation"

CountEvents(type) == Cardinality({i \in DOMAIN events : events[i].type = type})

Observations(trace) == {i \in DOMAIN trace : trace[i].kind = "Observation"}

\* C21: when an invocation has ended, the number of tool calls it made
\* equals the number of ObservationSteps in its trace, and is at most the
\* number of backend calls and at most max_iterations.
C21_ToolCallsMatchObservations ==
    pc \in {"returned", "raised"} =>
        /\ tool_calls = Cardinality(Observations(current_reasoning))
        /\ tool_calls <= llm_calls
        /\ tool_calls <= max_iterations

Done == {n \in Nodes : task[n] = "done"}

Embedded == {n \in Nodes : embedding[n]}

\* C22: in generate_embeddings, under every interleaving of the workers, the
\* progress counter is read and written only by the holder of its lock, it
\* counts each node whose call ran to its end exactly once (no update is
\* lost), every counted node has its embedding, the counter never exceeds
\* the number of nodes, and when generate_embeddings has returned it equals
\* the number of nodes that have an embedding.
C22_CounterCountsEmbedded ==
    /\ \A n \in Nodes : task[n] \in {"read", "write"} => lock = n
    /\ progress_counter = Cardinality(Done)
    /\ Done \subseteq Embedded
    /\ progress_counter <= total_nodes
    /\ main_pc = "returned" => progress_counter = Cardinality(Embedded)

\* Two workers contend: one is between the read and the write of the
\* counter while another waits for the lock, after a first increment.
C22_Witness ==
    \E n, m \in Nodes :
        /\ task[n] = "write"
        /\ task[m] = "lock"
        /\ progress_counter = 1
        /\ num_threads = 2

\* C23: generate_embeddings returns only after every node has been attempted
\* exactly once, and a failure on one node is isolated: it is logged, the
\* node has no embedding and is not counted, nothing is raised to the
\* caller, and no other node is kept from being attempted.
C23_FailureIsolated ==
    /\ main_pc = "returned" => \A n \in Nodes : attempts[n] = 1
    /\ \A n \in Nodes :
          error[n] # "none" =>
              /\ logged[n] >= 1
              /\ ~embedding[n]
              /\ n \notin Done
    /\ progress_counter = Cardinality(Done)
    /\ main_pc # "raised"
    /\ \A n \in Nodes : task[n] # "cancelled"
====
